---- MODULE Spec2Model ----
(***************************************************************************)
(* Model of dsp_app: the waveform synthesis driver (src/src/lib.rs) and    *)
(* the waveform variants (src/src/signals.rs).                             *)
(*                                                                         *)
(* Numbers.  The program computes on f64.  The model computes on exact     *)
(* rationals <<n, d>> (d > 0, lowest terms), so every +, -, *, /, %,       *)
(* floor and comparison of the source is evaluated exactly on the values   *)
(* the bounded input sets contain; f64 rounding is outside the model.      *)
(* Angles are kept in turns (radians / TAU), which keeps sin exact on      *)
(* multiples of a quarter turn.                                            *)
(***************************************************************************)
EXTENDS Integers, Sequences, FiniteSets, TLC

(* ------------------------------ bounds -------------------------------- *)

\* most waveforms registered on one SignalProcessor
MaxSignals == 2
\* longest grid a modelled call builds
MaxGridLen == 4
\* largest numerator magnitude and denominator of the inputs of linspace_by_freq
MaxNum == 2

(* ------------------------- f64 as exact rationals --------------------- *)

RECURSIVE GCD(_, _)
GCD(a, b) == IF b = 0 THEN a ELSE GCD(b, a % b)

IAbs(i) == IF i < 0 THEN -i ELSE i

\* the rational n/d in lowest terms with a positive denominator (d # 0)
Rat(n, d) ==
  LET s == IF d < 0 THEN -1 ELSE 1
      g == GCD(IAbs(n), IAbs(d))
  IN  << (s * n) \div g, (s * d) \div g >>

RInt(i) == << i, 1 >>

RAdd(a, b) == Rat(a[1] * b[2] + b[1] * a[2], a[2] * b[2])
RNeg(a) == << -a[1], a[2] >>
RSub(a, b) == RAdd(a, RNeg(b))
RMul(a, b) == Rat(a[1] * b[1], a[2] * b[2])
\* a / b for b # 0
RDiv(a, b) == Rat(a[1] * b[2], a[2] * b[1])
RLt(a, b) == a[1] * b[2] < b[1] * a[2]
RGt(a, b) == RLt(b, a)
RLe(a, b) == ~RLt(b, a)
RAbs(a) == << IAbs(a[1]), a[2] >>
\* f64::floor, as an integer
RFloor(a) == a[1] \div a[2]
\* truncation toward zero
RTrunc(a) == IF a[1] < 0 THEN -((-a[1]) \div a[2]) ELSE a[1] \div a[2]
\* f64 % : the remainder has the sign of the dividend (b # 0)
RRem(a, b) == RSub(a, RMul(b, RInt(RTrunc(RDiv(a, b)))))
\* f64::recip of a non-zero value
RRecip(a) == RDiv(RInt(1), a)
\* f64::clamp(0.0, f64::MAX) on a finite value
Clamp0(a) == IF RLt(a, RInt(0)) THEN RInt(0) ELSE a

Zero == RInt(0)
One == RInt(1)
Half == Rat(1, 2)

(* --------------------------- linspace_by_freq ------------------------- *)

\* `points`: floor((end_point - starting_point) / step) as usize.  freq = 0 makes
\* step infinite and the quotient 0; the cast to usize saturates negatives to 0.
linspace_points_off(starting_point, end_point, freq) ==
  IF freq = Zero THEN 0
  ELSE LET q == RFloor(RDiv(RSub(end_point, starting_point), RRecip(freq)))
       IN  IF q < 0 THEN 0 ELSE q + 1

linspace_points(starting_point, end_point, freq) ==
  IF freq = Zero THEN 0
  ELSE LET q == RFloor(RDiv(RSub(end_point, starting_point), RRecip(freq)))
       IN  IF q < 0 THEN 0 ELSE q

\* the returned Vec<f64>: (0..points).map(|offset| starting_point + offset * step)
linspace_by_freq(starting_point, end_point, freq) ==
  LET points == linspace_points(starting_point, end_point, freq)
  IN  [ i \in 1..points |->
          RAdd(starting_point, RMul(RInt(i - 1), RRecip(freq))) ]

(* ------------------------------ waveforms ----------------------------- *)
(* A waveform is a record of its struct's fields and a `kind` naming the   *)
(* struct; a sample is a CoordPair [x, y].  calculate_signal returns an    *)
(* outcome: the samples, or the panic that ended the call.  The noise      *)
(* variants read the thread's random generator, so calculate_signal is the *)
(* set of the outcomes a call can have.                                    *)

\* f64 values
F64 == Int \X (Nat \ { 0 })

\* struct CoordPair
CoordPairs == [ x : F64, y : F64 ]

\* what a call gives back: the Vec returned, or the panic that ended the call
Outcomes == [ status : { "ok", "panic", "none" }, cause : STRING, samples : Seq(CoordPairs) ]

\* the waveform structs
SineSignals ==
  [ kind : { "SineSignal" }, signal_freq : F64, duration : F64, start_offset : F64,
    amplitude : F64, phase_shift : F64 ]
HalfWaveRectifiedSineSignals ==
  [ kind : { "HalfWaveRectifiedSineSignal" }, inner_sine : SineSignals ]
FullWaveRectifiedSineSignals ==
  [ kind : { "FullWaveRectifiedSineSignal" }, inner_sine : SineSignals ]
UniformNoises ==
  [ kind : { "UniformNoise" }, duration : F64, start_offset : F64, amplitude : F64 ]
NormalNoises ==
  [ kind : { "NormalNoise" }, duration : F64, start_offset : F64, amplitude : F64 ]
SymmetricRectangularSignals ==
  [ kind : { "SymmetricRectangularSignal" }, signal_freq : F64, duration : F64,
    start_offset : F64, amplitude : F64, duty_cycle : F64 ]
RectangularSignals ==
  [ kind : { "RectangularSignal" }, inner_signal : SymmetricRectangularSignals ]
TriangularSignals ==
  [ kind : { "TriangularSignal" }, signal_freq : F64, duration : F64, start_offset : F64,
    amplitude : F64, duty_cycle : F64 ]
UnitJumps ==
  [ kind : { "UnitJump" }, duration : F64, start_offset : F64, amplitude : F64,
    flip_offset : F64 ]
UnitPulses ==
  [ kind : { "UnitPulse" }, duration : F64, start_offset : F64, amplitude : F64,
    time_offset : F64 ]
UnitNoises ==
  [ kind : { "UnitNoise" }, duration : F64, start_offset : F64, amplitude : F64,
    probability : F64 ]

\* Box<dyn CalculableSignal>
CalculableSignals ==
  SineSignals \cup HalfWaveRectifiedSineSignals \cup FullWaveRectifiedSineSignals
    \cup UniformNoises \cup NormalNoises \cup SymmetricRectangularSignals
    \cup RectangularSignals \cup TriangularSignals \cup UnitJumps \cup UnitPulses
    \cup UnitNoises

CoordPair(x, y) == [ x |-> x, y |-> y ]

Returned(samples) == [ status |-> "ok", cause |-> "", samples |-> samples ]
Panicked(cause) == [ status |-> "panic", cause |-> cause, samples |-> << >> ]

\* sin on whole quarter turns; turns is the angle divided by TAU
SinDefined(turns) == 4 % turns[2] = 0
SinTurns(turns) ==
  LET q == ((4 \div turns[2]) * turns[1]) % 4
  IN  CASE q = 0 -> Zero [] q = 1 -> One [] q = 2 -> Zero [] q = 3 -> RInt(-1)

SineSignal_new(signal_freq, duration, start_offset, amplitude, phase_shift) ==
  [ kind |-> "SineSignal", signal_freq |-> signal_freq, duration |-> duration,
    start_offset |-> start_offset, amplitude |-> amplitude, phase_shift |-> phase_shift ]

SineAngle(self, point) == RAdd(RMul(self.signal_freq, point), self.phase_shift)

SineSignal_calculate_signal(self, sampling_points) ==
  [ i \in 1..Len(sampling_points) |->
      CoordPair(sampling_points[i],
                RMul(self.amplitude, SinTurns(SineAngle(self, sampling_points[i])))) ]

HalfWaveRectifiedSineSignal_new(signal_freq, duration, start_offset, amplitude, phase_shift) ==
  [ kind |-> "HalfWaveRectifiedSineSignal",
    inner_sine |-> SineSignal_new(signal_freq, duration, start_offset, amplitude, phase_shift) ]

HalfWaveRectifiedSineSignal_calculate_signal(self, sampling_points) ==
  LET inner == SineSignal_calculate_signal(self.inner_sine, sampling_points)
  IN  [ i \in 1..Len(inner) |-> CoordPair(inner[i].x, Clamp0(inner[i].y)) ]

FullWaveRectifiedSineSignal_new(signal_freq, duration, start_offset, amplitude, phase_shift) ==
  [ kind |-> "FullWaveRectifiedSineSignal",
    inner_sine |-> SineSignal_new(signal_freq, duration, start_offset, amplitude, phase_shift) ]

FullWaveRectifiedSineSignal_calculate_signal(self, sampling_points) ==
  LET inner == SineSignal_calculate_signal(self.inner_sine, sampling_points)
  IN  [ i \in 1..Len(inner) |-> CoordPair(inner[i].x, RAbs(inner[i].y)) ]

UniformNoise_new(duration, start_offset, amplitude) ==
  [ kind |-> "UniformNoise", duration |-> duration, start_offset |-> start_offset,
    amplitude |-> amplitude ]

\* values Uniform::new(low, high) can draw, low < high: low itself and the midpoint
UniformDraws(low, high) == { low, RMul(Half, RAdd(low, high)) }

\* Uniform::new(low, high) panics unless low < high, before any point is read
UniformNoise_calculate_signal(self, sampling_points) ==
  IF ~RLt(RNeg(self.amplitude), self.amplitude)
  THEN { Panicked("Uniform::new called with low >= high") }
  ELSE { Returned([ i \in 1..Len(sampling_points) |-> CoordPair(sampling_points[i], value[i]) ]) :
           value \in [ 1..Len(sampling_points) ->
                         UniformDraws(RNeg(self.amplitude), self.amplitude) ] }

NormalNoise_new(duration, start_offset, amplitude) ==
  [ kind |-> "NormalNoise", duration |-> duration, start_offset |-> start_offset,
    amplitude |-> amplitude ]

\* two of the values StandardNormal can draw
NormalDraws == { RInt(-1), Half }

NormalNoise_calculate_signal(self, sampling_points) ==
  { Returned([ i \in 1..Len(sampling_points) |->
                 CoordPair(sampling_points[i], RMul(value[i], self.amplitude)) ]) :
      value \in [ 1..Len(sampling_points) -> NormalDraws ] }

SymmetricRectangularSignal_new(signal_freq, duration, start_offset, amplitude, duty_cycle) ==
  [ kind |-> "SymmetricRectangularSignal", signal_freq |-> signal_freq, duration |-> duration,
    start_offset |-> start_offset, amplitude |-> amplitude, duty_cycle |-> duty_cycle ]

SymmetricRectangularSignal_calculate_signal(self, sampling_points) ==
  LET function_period == RDiv(One, self.signal_freq)
      flip_point_within_period == RMul(function_period, self.duty_cycle)
  IN  [ i \in 1..Len(sampling_points) |->
          LET offset_within_period == RRem(sampling_points[i], function_period)
          IN  CoordPair(sampling_points[i],
                        IF RGt(offset_within_period, flip_point_within_period)
                        THEN RNeg(self.amplitude) ELSE self.amplitude) ]

RectangularSignal_new(signal_freq, duration, start_offset, amplitude, duty_cycle) ==
  [ kind |-> "RectangularSignal",
    inner_signal |-> SymmetricRectangularSignal_new(signal_freq, duration, start_offset,
                                                    amplitude, duty_cycle) ]

RectangularSignal_calculate_signal_abs(self, sampling_points) ==
  LET inner == SymmetricRectangularSignal_calculate_signal(self.inner_signal, sampling_points)
  IN  [ i \in 1..Len(inner) |-> CoordPair(inner[i].x, RAbs(inner[i].y)) ]

RectangularSignal_calculate_signal(self, sampling_points) ==
  LET inner == SymmetricRectangularSignal_calculate_signal(self.inner_signal, sampling_points)
  IN  [ i \in 1..Len(inner) |-> CoordPair(inner[i].x, Clamp0(inner[i].y)) ]

TriangularSignal_new(signal_freq, duration, start_offset, amplitude, duty_cycle) ==
  [ kind |-> "TriangularSignal", signal_freq |-> signal_freq, duration |-> duration,
    start_offset |-> start_offset, amplitude |-> amplitude, duty_cycle |-> duty_cycle ]

\* duty_cycle # 0: the else branch divides by flip_point_within_period
TriangularSignal_calculate_signal(self, sampling_points) ==
  LET function_period == RRecip(self.signal_freq)
      flip_point_within_period == RMul(function_period, self.duty_cycle)
  IN  [ i \in 1..Len(sampling_points) |->
          LET offset_within_period == RRem(sampling_points[i], function_period)
              part_of_wave_side ==
                IF RGt(offset_within_period, flip_point_within_period)
                THEN RDiv(RSub(offset_within_period, flip_point_within_period),
                          RSub(function_period, flip_point_within_period))
                ELSE RSub(One, RDiv(offset_within_period, flip_point_within_period))
          IN  CoordPair(sampling_points[i], RMul(part_of_wave_side, self.amplitude)) ]

UnitJump_new(flip_offset, duration, start_offset, amplitude) ==
  [ kind |-> "UnitJump", duration |-> duration, start_offset |-> start_offset,
    amplitude |-> amplitude, flip_offset |-> flip_offset ]

UnitJump_calculate_signal(self, sampling_points) ==
  LET global_flip_point == RAdd(self.start_offset, self.flip_offset)
  IN  [ i \in 1..Len(sampling_points) |->
          CoordPair(sampling_points[i],
                    IF RGt(sampling_points[i], global_flip_point)
                    THEN self.amplitude ELSE Zero) ]

UnitPulse_new(time_offset, duration, start_offset, amplitude) ==
  [ kind |-> "UnitPulse", duration |-> duration, start_offset |-> start_offset,
    amplitude |-> amplitude, time_offset |-> time_offset ]

\* stands for f64::MAX: above every distance the bounded inputs produce
F64_MAX == RInt(1000000)

\* the scan with <= in place of <: a later point at the same distance replaces
RECURSIVE UnitPulse_scan_le(_, _, _, _, _)
UnitPulse_scan_le(global_flip_point, sampling_points, i, smallest_diff_so_far, smallest_diff_time) ==
  IF i > Len(sampling_points) THEN smallest_diff_time
  ELSE LET current_diff == RAbs(RSub(global_flip_point, sampling_points[i]))
       IN  IF RLe(current_diff, smallest_diff_so_far)
           THEN UnitPulse_scan_le(global_flip_point, sampling_points, i + 1,
                                  current_diff, sampling_points[i])
           ELSE UnitPulse_scan_le(global_flip_point, sampling_points, i + 1,
                                  smallest_diff_so_far, smallest_diff_time)

\* the for loop from its i-th point on: the value of smallest_diff_time when it ends
RECURSIVE UnitPulse_scan(_, _, _, _, _)
UnitPulse_scan(global_flip_point, sampling_points, i, smallest_diff_so_far, smallest_diff_time) ==
  IF i > Len(sampling_points) THEN smallest_diff_time
  ELSE LET current_diff == RAbs(RSub(global_flip_point, sampling_points[i]))
       IN  IF RLt(current_diff, smallest_diff_so_far)
           THEN UnitPulse_scan(global_flip_point, sampling_points, i + 1,
                               current_diff, sampling_points[i])
           ELSE UnitPulse_scan(global_flip_point, sampling_points, i + 1,
                               smallest_diff_so_far, smallest_diff_time)

\* the final map with `*point <= smallest_diff_time` in place of ==
UnitPulse_calculate_signal_upto(self, sampling_points) ==
  LET global_flip_point == RAdd(self.start_offset, self.time_offset)
      smallest_diff_time == UnitPulse_scan(global_flip_point, sampling_points, 1, F64_MAX, Zero)
  IN  [ i \in 1..Len(sampling_points) |->
          CoordPair(sampling_points[i],
                    IF RLe(sampling_points[i], smallest_diff_time)
                    THEN self.amplitude ELSE Zero) ]

UnitPulse_calculate_signal(self, sampling_points) ==
  LET global_flip_point == RAdd(self.start_offset, self.time_offset)
      smallest_diff_time == UnitPulse_scan(global_flip_point, sampling_points, 1, F64_MAX, Zero)
  IN  [ i \in 1..Len(sampling_points) |->
          CoordPair(sampling_points[i],
                    IF sampling_points[i] = smallest_diff_time
                    THEN self.amplitude ELSE Zero) ]

UnitNoise_new(probability, duration, start_offset, amplitude) ==
  [ kind |-> "UnitNoise", duration |-> duration, start_offset |-> start_offset,
    amplitude |-> amplitude, probability |-> probability ]

\* Bernoulli::new(p) is Err unless 0 <= p <= 1
Bernoulli_new_ok(p) == RLe(Zero, p) /\ RLe(p, One)

\* values a Bernoulli(p) sample can take
BernoulliDraws(p) == { b \in BOOLEAN : (b => RGt(p, Zero)) /\ (~b => RLt(p, One)) }

\* Bernoulli::new(..).unwrap() runs before any point is read
UnitNoise_calculate_signal(self, sampling_points) ==
  IF ~Bernoulli_new_ok(self.probability)
  THEN { Panicked("Bernoulli::new(probability).unwrap() on Err") }
  ELSE { Returned([ i \in 1..Len(sampling_points) |->
                      CoordPair(sampling_points[i],
                                IF value[i] THEN self.amplitude ELSE Zero) ]) :
           value \in [ 1..Len(sampling_points) -> BernoulliDraws(self.probability) ] }

(* ------------------- trait CalculableSignal: dispatch ----------------- *)

NoiseKinds == { "UniformNoise", "NormalNoise", "UnitNoise" }
SineKinds == { "SineSignal", "HalfWaveRectifiedSineSignal", "FullWaveRectifiedSineSignal" }

\* the struct holding start_offset and duration
Params(signal) ==
  CASE signal.kind \in { "HalfWaveRectifiedSineSignal", "FullWaveRectifiedSineSignal" }
         -> signal.inner_sine
    [] signal.kind = "RectangularSignal" -> signal.inner_signal
    [] OTHER -> signal

get_signal_end(signal) == RAdd(Params(signal).start_offset, Params(signal).duration)

\* dyn CalculableSignal::calculate_signal: the set of outcomes of one call
calculate_signal(signal, sampling_points) ==
  CASE signal.kind = "SineSignal" ->
         { Returned(SineSignal_calculate_signal(signal, sampling_points)) }
    [] signal.kind = "HalfWaveRectifiedSineSignal" ->
         { Returned(HalfWaveRectifiedSineSignal_calculate_signal(signal, sampling_points)) }
    [] signal.kind = "FullWaveRectifiedSineSignal" ->
         { Returned(FullWaveRectifiedSineSignal_calculate_signal(signal, sampling_points)) }
    [] signal.kind = "UniformNoise" -> UniformNoise_calculate_signal(signal, sampling_points)
    [] signal.kind = "NormalNoise" -> NormalNoise_calculate_signal(signal, sampling_points)
    [] signal.kind = "RectangularSignal" ->
         { Returned(RectangularSignal_calculate_signal(signal, sampling_points)) }
    [] signal.kind = "SymmetricRectangularSignal" ->
         { Returned(SymmetricRectangularSignal_calculate_signal(signal, sampling_points)) }
    [] signal.kind = "TriangularSignal" ->
         { Returned(TriangularSignal_calculate_signal(signal, sampling_points)) }
    [] signal.kind = "UnitJump" ->
         { Returned(UnitJump_calculate_signal(signal, sampling_points)) }
    [] signal.kind = "UnitPulse" ->
         { Returned(UnitPulse_calculate_signal(signal, sampling_points)) }
    [] signal.kind = "UnitNoise" -> UnitNoise_calculate_signal(signal, sampling_points)

\* the inputs the model evaluates: sin only on whole quarter turns
Computable(signal, sampling_points) ==
  signal.kind \in SineKinds =>
    \A i \in 1..Len(sampling_points) :
      SinDefined(SineAngle(Params(signal), sampling_points[i]))

(* --------------------------- SignalProcessor -------------------------- *)

VARIABLES
  sampling_frequency,  \* SignalProcessor.sampling_frequency
  starting_time,       \* SignalProcessor.starting_time
  signals,             \* SignalProcessor.signals, in registration order
  op,                  \* the method called last on the processor
  ret,                 \* what that call returned, or the panic that ended it
  wave,                \* a waveform calculate_signal is called on directly
  sampling_points,     \* the grid handed to that call
  output,              \* the outcome of that call
  lin_args,            \* the arguments of a direct linspace_by_freq call
  lin_ret              \* the outcome of that call

vars == << sampling_frequency, starting_time, signals, op, ret,
           wave, sampling_points, output, lin_args, lin_ret >>

procVars == << sampling_frequency, starting_time, signals, op, ret >>
waveVars == << wave, sampling_points, output >>
gridVars == << lin_args, lin_ret >>

\* no call made yet
NotCalled == [ status |-> "none", cause |-> "", samples |-> << >> ]

\* Iterator::max_by with partial_cmp over the end times: a later element replaces
\* the running maximum unless the running maximum is greater
RECURSIVE max_by_min(_, _, _)
max_by_min(ends, i, best) ==
  IF i > Len(ends) THEN best
  ELSE max_by_min(ends, i + 1, IF RLt(best, ends[i]) THEN best ELSE ends[i])

RECURSIVE max_by(_, _, _)
max_by(ends, i, best) ==
  IF i > Len(ends) THEN best
  ELSE max_by(ends, i + 1, IF RGt(best, ends[i]) THEN best ELSE ends[i])

\* signal_duration of a non-empty collection
signal_duration(sigs) ==
  max_by([ i \in 1..Len(sigs) |-> get_signal_end(sigs[i]) ], 2, get_signal_end(sigs[1]))

\* the grid get_signal builds
get_signal_points(sf, st, sigs) ==
  linspace_by_freq(st, RAdd(st, signal_duration(sigs)), sf)

\* get_signal with an empty collection returning no samples instead of panicking
get_signal_empty_ok(sf, st, sigs) ==
  IF sigs = << >>
  THEN { Returned(<< >>) }
  ELSE calculate_signal(sigs[1], get_signal_points(sf, st, sigs))

\* get_signal sampling the waveform registered last
get_signal_last(sf, st, sigs) ==
  IF sigs = << >>
  THEN { Panicked("Option::unwrap on None") }
  ELSE calculate_signal(sigs[Len(sigs)], get_signal_points(sf, st, sigs))

\* SignalProcessor::get_signal: the set of outcomes of one call
get_signal(sf, st, sigs) ==
  IF sigs = << >>
  THEN { Panicked("Option::unwrap on None") }
  ELSE calculate_signal(sigs[1], get_signal_points(sf, st, sigs))

(* inputs of the processor's methods *)
SamplingFrequencies == { One, RInt(2) }
StartingTimes == { Half }
RegDurations == { One, RInt(2) }
RegStartOffsets == { Zero, One }
RegAmplitudes == { RInt(2) }
RegSignalFreqs == { Half }
RegPhaseShifts == { Zero }
RegDutyCycles == { Half }
RegFlipOffsets == { Half }
RegTimeOffsets == { Half }
RegProbabilities == { Half, Rat(3, 2) }

idleWave == [ kind |-> "none" ]
WaveIdle == wave = idleWave /\ sampling_points = << >> /\ output = NotCalled
GridIdle == lin_args = << >> /\ lin_ret = NotCalled

\* SignalProcessor::new
Init ==
  /\ sampling_frequency \in SamplingFrequencies
  /\ starting_time \in StartingTimes
  /\ signals = << >>
  /\ op = "new"
  /\ ret = NotCalled
  /\ WaveIdle
  /\ GridIdle

\* self.signals.push(Box::new(signal))
push(name, signal) ==
  /\ Len(signals) < MaxSignals
  /\ signal \in CalculableSignals
  /\ signals' = Append(signals, signal)
  /\ op' = name
  /\ ret' = Returned(<< >>)
  /\ UNCHANGED << sampling_frequency, starting_time, waveVars, gridVars >>

add_sine ==
  \E signal_freq \in RegSignalFreqs, duration \in RegDurations, start_offset \in RegStartOffsets,
     amplitude \in RegAmplitudes, phase_shift \in RegPhaseShifts :
    push("add_sine", SineSignal_new(signal_freq, duration, start_offset, amplitude, phase_shift))

add_half_wave_rectified_sine ==
  \E signal_freq \in RegSignalFreqs, duration \in RegDurations, start_offset \in RegStartOffsets,
     amplitude \in RegAmplitudes, phase_shift \in RegPhaseShifts :
    push("add_half_wave_rectified_sine",
         HalfWaveRectifiedSineSignal_new(signal_freq, duration, start_offset, amplitude, phase_shift))

add_full_wave_rectified_sine ==
  \E signal_freq \in RegSignalFreqs, duration \in RegDurations, start_offset \in RegStartOffsets,
     amplitude \in RegAmplitudes, phase_shift \in RegPhaseShifts :
    push("add_full_wave_rectified_sine",
         FullWaveRectifiedSineSignal_new(signal_freq, duration, start_offset, amplitude, phase_shift))

add_uniform_noise ==
  \E duration \in RegDurations, start_offset \in RegStartOffsets, amplitude \in RegAmplitudes :
    push("add_uniform_noise", UniformNoise_new(duration, start_offset, amplitude))

add_normal_noise ==
  \E duration \in RegDurations, start_offset \in RegStartOffsets, amplitude \in RegAmplitudes :
    push("add_normal_noise", NormalNoise_new(duration, start_offset, amplitude))

add_rectangular ==
  \E signal_freq \in RegSignalFreqs, duration \in RegDurations, start_offset \in RegStartOffsets,
     amplitude \in RegAmplitudes, duty_cycle \in RegDutyCycles :
    push("add_rectangular",
         RectangularSignal_new(signal_freq, duration, start_offset, amplitude, duty_cycle))

add_symmetric_rectangular ==
  \E signal_freq \in RegSignalFreqs, duration \in RegDurations, start_offset \in RegStartOffsets,
     amplitude \in RegAmplitudes, duty_cycle \in RegDutyCycles :
    push("add_symmetric_rectangular",
         SymmetricRectangularSignal_new(signal_freq, duration, start_offset, amplitude, duty_cycle))

add_triangular ==
  \E signal_freq \in RegSignalFreqs, duration \in RegDurations, start_offset \in RegStartOffsets,
     amplitude \in RegAmplitudes, duty_cycle \in RegDutyCycles :
    push("add_triangular",
         TriangularSignal_new(signal_freq, duration, start_offset, amplitude, duty_cycle))

add_unit_jump ==
  \E flip_offset \in RegFlipOffsets, duration \in RegDurations, start_offset \in RegStartOffsets,
     amplitude \in RegAmplitudes :
    push("add_unit_jump", UnitJump_new(flip_offset, duration, start_offset, amplitude))

add_unit_pulse ==
  \E time_offset \in RegTimeOffsets, duration \in RegDurations, start_offset \in RegStartOffsets,
     amplitude \in RegAmplitudes :
    push("add_unit_pulse", UnitPulse_new(time_offset, duration, start_offset, amplitude))

add_unit_noise ==
  \E probability \in RegProbabilities, duration \in RegDurations, start_offset \in RegStartOffsets,
     amplitude \in RegAmplitudes :
    push("add_unit_noise", UnitNoise_new(probability, duration, start_offset, amplitude))

\* get_signal taking the first waveform out of the collection
GetSignal_take ==
  /\ signals # << >>
  /\ Len(get_signal_points(sampling_frequency, starting_time, signals)) <= MaxGridLen
  /\ Computable(signals[1], get_signal_points(sampling_frequency, starting_time, signals))
  /\ ret' \in get_signal(sampling_frequency, starting_time, signals)
  /\ op' = "get_signal"
  /\ signals' = Tail(signals)
  /\ UNCHANGED << sampling_frequency, starting_time, waveVars, gridVars >>

\* a call of get_signal(&self); the grid is within the model's bound
GetSignal ==
  /\ signals # << >> =>
       /\ Len(get_signal_points(sampling_frequency, starting_time, signals)) <= MaxGridLen
       /\ Computable(signals[1], get_signal_points(sampling_frequency, starting_time, signals))
  /\ ret' \in get_signal(sampling_frequency, starting_time, signals)
  /\ op' = "get_signal"
  /\ UNCHANGED << sampling_frequency, starting_time, signals, waveVars, gridVars >>

Next ==
  \/ add_sine
  \/ add_half_wave_rectified_sine
  \/ add_full_wave_rectified_sine
  \/ add_uniform_noise
  \/ add_normal_noise
  \/ add_rectangular
  \/ add_symmetric_rectangular
  \/ add_triangular
  \/ add_unit_jump
  \/ add_unit_pulse
  \/ add_unit_noise
  \/ GetSignal

Spec == Init /\ [][Next]_vars

(* ------------------ linspace_by_freq called directly ------------------ *)

\* the rationals n/d with |n| <= MaxNum and 1 <= d <= MaxNum
Rats == { Rat(n, d) : n \in -MaxNum..MaxNum, d \in 1..MaxNum }

InitGrid ==
  /\ lin_args \in [ starting_point : Rats, end_point : Rats, freq : Rats ]
  /\ lin_ret = NotCalled
  /\ sampling_frequency = One /\ starting_time = Zero /\ signals = << >>
  /\ op = "new" /\ ret = NotCalled
  /\ WaveIdle

\* one call of linspace_by_freq on the drawn arguments
LinspaceByFreq ==
  /\ lin_ret = NotCalled
  /\ linspace_points(lin_args.starting_point, lin_args.end_point, lin_args.freq) <= MaxGridLen
  /\ lin_ret' = Returned(linspace_by_freq(lin_args.starting_point, lin_args.end_point,
                                          lin_args.freq))
  /\ UNCHANGED << lin_args, procVars, waveVars >>

NextGrid == LinspaceByFreq

SpecGrid == InitGrid /\ [][NextGrid]_vars

(* ------------- calculate_signal of one waveform on one grid ----------- *)

Amplitudes == { RInt(-1), Zero, RInt(2) }
SignalFreqs == { Half, One }
PhaseShifts == { Zero, Rat(1, 4) }
DutyCycles == { Zero, Half, One }
FlipOffsets == { Zero, Half, One }
TimeOffsets == { RInt(-1), Rat(1, 4), Half, One, RInt(3) }
Probabilities == { Rat(-1, 2), Zero, Half, One, Rat(3, 2) }
Durations == { One }
StartOffsets == { Zero, One }

\* the waveforms the constructors build from these parameters
Waveforms ==
  UNION {
    { SineSignal_new(f, d, o, a, p) :
        f \in SignalFreqs, d \in Durations, o \in StartOffsets, a \in Amplitudes, p \in PhaseShifts },
    { HalfWaveRectifiedSineSignal_new(f, d, o, a, p) :
        f \in SignalFreqs, d \in Durations, o \in StartOffsets, a \in Amplitudes, p \in PhaseShifts },
    { FullWaveRectifiedSineSignal_new(f, d, o, a, p) :
        f \in SignalFreqs, d \in Durations, o \in StartOffsets, a \in Amplitudes, p \in PhaseShifts },
    { UniformNoise_new(d, o, a) : d \in Durations, o \in StartOffsets, a \in Amplitudes },
    { NormalNoise_new(d, o, a) : d \in Durations, o \in StartOffsets, a \in Amplitudes },
    { RectangularSignal_new(f, d, o, a, c) :
        f \in SignalFreqs, d \in Durations, o \in StartOffsets, a \in Amplitudes, c \in DutyCycles },
    { SymmetricRectangularSignal_new(f, d, o, a, c) :
        f \in SignalFreqs, d \in Durations, o \in StartOffsets, a \in Amplitudes, c \in DutyCycles },
    { TriangularSignal_new(f, d, o, a, c) :
        f \in SignalFreqs, d \in Durations, o \in StartOffsets, a \in Amplitudes,
        c \in DutyCycles \ { Zero } },
    { UnitJump_new(x, d, o, a) :
        x \in FlipOffsets, d \in Durations, o \in StartOffsets, a \in Amplitudes },
    { UnitPulse_new(x, d, o, a) :
        x \in TimeOffsets, d \in Durations, o \in StartOffsets, a \in Amplitudes },
    { UnitNoise_new(p, d, o, a) :
        p \in Probabilities, d \in Durations, o \in StartOffsets, a \in Amplitudes } }

\* the grids get_signal can hand to calculate_signal: the values of linspace_by_freq
Grids ==
  { linspace_by_freq(s, e, f) :
      << s, e, f >> \in { t \in Rats \X Rats \X Rats :
                            linspace_points(t[1], t[2], t[3]) <= MaxGridLen } }

InitWave ==
  /\ wave \in Waveforms
  /\ sampling_points \in Grids
  /\ output = NotCalled
  /\ sampling_frequency = One /\ starting_time = Zero /\ signals = << >>
  /\ op = "new" /\ ret = NotCalled
  /\ GridIdle

\* one call of wave.calculate_signal(&sampling_points)
CalculateSignal ==
  /\ output = NotCalled
  /\ Computable(wave, sampling_points)
  /\ output' \in calculate_signal(wave, sampling_points)
  /\ UNCHANGED << wave, sampling_points, procVars, gridVars >>

NextWave == CalculateSignal

SpecWave == InitWave /\ [][NextWave]_vars

(* ------------------------------- claims ------------------------------- *)

AddOps ==
  { "add_sine", "add_half_wave_rectified_sine", "add_full_wave_rectified_sine",
    "add_uniform_noise", "add_normal_noise", "add_rectangular", "add_symmetric_rectangular",
    "add_triangular", "add_unit_jump", "add_unit_pulse", "add_unit_noise" }

\* the end times start_offset + duration of the registered waveforms
EndTimes ==
  { RAdd(Params(signals[i]).start_offset, Params(signals[i]).duration) : i \in 1..Len(signals) }

\* M: the largest end time (signals non-empty)
LargestEnd == CHOOSE m \in EndTimes : \A e \in EndTimes : RLe(e, m)

\* the grid over [starting_time, starting_time + M) at sampling_frequency
SharedGrid ==
  linspace_by_freq(starting_time, RAdd(starting_time, LargestEnd), sampling_frequency)

C2_EmptyCollectionFails ==
  (op = "get_signal" /\ signals = << >>) =>
    /\ ret.status = "panic"
    /\ ret.cause = "Option::unwrap on None"
    /\ ret.samples = << >>

C2_Witness == op = "get_signal" /\ signals = << >> /\ ret.status = "panic"

\* C5: a unit noise waveform with probability outside [0, 1] is rejected when it is
\* registered: no such waveform is ever in the collection, at any position.
C5_RejectedAtConstruction ==
  \A i \in 1..Len(signals) :
    signals[i].kind = "UnitNoise" =>
      (RLe(Zero, signals[i].probability) /\ RLe(signals[i].probability, One))

\* C7: when get_signal succeeds, it returns as many samples as the grid over
\* [starting_time, starting_time + M) has, M the largest start_offset + duration of
\* the registered waveforms, one sample at each instant of that grid.
C7_SampleCountIsGridLength ==
  (op = "get_signal" /\ ret.status = "ok") =>
    LET n == RFloor(RMul(LargestEnd, sampling_frequency))
    IN  /\ Len(ret.samples) = IF n < 0 THEN 0 ELSE n
        /\ \A i \in 1..Len(ret.samples) :
             ret.samples[i].x = RAdd(starting_time, RDiv(RInt(i - 1), sampling_frequency))

\* the first of two waveforms ends before the second and is sampled past its own end
C7_Witness ==
  /\ op = "get_signal" /\ ret.status = "ok" /\ Len(signals) = 2
  /\ RLt(get_signal_end(signals[1]), get_signal_end(signals[2]))
  /\ Len(ret.samples) >
       RFloor(RMul(get_signal_end(signals[1]), sampling_frequency))
  /\ Params(signals[2]).start_offset # Zero

\* C10: get_signal changes nothing of the processor, whether it returns or fails;
\* the collection changes only by an add_* appending one waveform at its end; and a
\* get_signal call that follows a get_signal call on a waveform without noise
\* returns the same samples.
C10_GetSignalFrame ==
  [][ /\ op' = "get_signal" =>
           /\ signals' = signals
           /\ sampling_frequency' = sampling_frequency
           /\ starting_time' = starting_time
      /\ signals' # signals =>
           /\ op' \in AddOps
           /\ Len(signals') = Len(signals) + 1
           /\ SubSeq(signals', 1, Len(signals)) = signals
      /\ sampling_frequency' = sampling_frequency
      /\ starting_time' = starting_time
      /\ ( /\ op = "get_signal" /\ op' = "get_signal"
           /\ (signals = << >> \/ signals[1].kind \notin NoiseKinds) )
           => ret' = ret ]_vars

\* a successful call on two waveforms, both still registered after it
C10_Witness ==
  op = "get_signal" /\ ret.status = "ok" /\ Len(signals) = 2 /\ Len(ret.samples) >= 1

\* the arguments and the instants of the direct linspace_by_freq call
GridStart == lin_args.starting_point
GridEnd == lin_args.end_point
GridFreq == lin_args.freq
Instants == lin_ret.samples

C4_NonPositiveFrequencyFails ==
  (lin_ret.status # "none" /\ RLe(GridFreq, Zero)) => lin_ret.status = "panic"

\* the target instant of the unit pulse and its distance to the i-th grid instant
PulseTarget == RAdd(wave.start_offset, wave.time_offset)
PulseDistance(i) == RAbs(RSub(sampling_points[i], PulseTarget))

\* the indices of the samples that carry the amplitude
AmplitudeSamples == { i \in 1..Len(output.samples) : output.samples[i].y = wave.amplitude }

\* C6 as stated: for any grid and any target instant, the unit pulse's output has
\* exactly one sample whose value is amplitude, and every other sample is 0.
C6_ExactlyOnePulse_AnyGrid ==
  (wave.kind = "UnitPulse" /\ output.status = "ok") =>
    /\ Cardinality(AmplitudeSamples) = 1
    /\ \A i \in 1..Len(output.samples) :
         i \notin AmplitudeSamples => output.samples[i].y = Zero

\* C6 amended: on a non-empty grid of distinct instants and with amplitude # 0, the
\* unit pulse's output has exactly one sample whose value is amplitude and every
\* other sample is 0; on the empty grid the output is empty; with amplitude = 0
\* every sample is 0.
C6_ExactlyOnePulse ==
  (wave.kind = "UnitPulse" /\ output.status = "ok") =>
    /\ Len(output.samples) = Len(sampling_points)
    /\ ( /\ sampling_points # << >>
         /\ \A i, j \in 1..Len(sampling_points) :
              i # j => sampling_points[i] # sampling_points[j]
         /\ wave.amplitude # Zero )
         => /\ Cardinality(AmplitudeSamples) = 1
            /\ \A i \in 1..Len(output.samples) :
                 i \notin AmplitudeSamples => output.samples[i].y = Zero
    /\ wave.amplitude = Zero => \A i \in 1..Len(output.samples) : output.samples[i].y = Zero

\* a pulse of non-zero amplitude sampled on a grid of several instants
C6_Witness ==
  /\ wave.kind = "UnitPulse" /\ output.status = "ok"
  /\ wave.amplitude # Zero /\ Len(sampling_points) >= 3
  /\ Cardinality(AmplitudeSamples) = 1

\* max(0, v)
C8_Max0(v) == IF RLt(v, Zero) THEN Zero ELSE v

\* C8 as stated: each Rectangular sample is max(0, v), v the SymmetricRectangular
\* value for the same parameters at that instant, and so is amplitude or 0.
C8_RectangularIsAmplitudeOrZero ==
  (wave.kind = "RectangularSignal" /\ output.status = "ok") =>
    LET v == SymmetricRectangularSignal_calculate_signal(wave.inner_signal, sampling_points)
    IN  /\ Len(output.samples) = Len(v)
        /\ \A i \in 1..Len(v) :
             /\ output.samples[i].y = C8_Max0(v[i].y)
             /\ output.samples[i].y \in { wave.inner_signal.amplitude, Zero }

\* C8 amended: each Rectangular sample is max(0, v), so it is |amplitude| or 0: amplitude
\* or 0 when amplitude >= 0, and -amplitude or 0 when amplitude < 0.
C8_RectangularIsClampedSymmetric ==
  (wave.kind = "RectangularSignal" /\ output.status = "ok") =>
    LET v == SymmetricRectangularSignal_calculate_signal(wave.inner_signal, sampling_points)
        amplitude == wave.inner_signal.amplitude
    IN  /\ Len(output.samples) = Len(v)
        /\ \A i \in 1..Len(v) :
             /\ output.samples[i].x = sampling_points[i]
             /\ output.samples[i].y = C8_Max0(v[i].y)
             /\ output.samples[i].y \in { RAbs(amplitude), Zero }
             /\ RLe(Zero, amplitude) => output.samples[i].y \in { amplitude, Zero }
             /\ RLt(amplitude, Zero) => output.samples[i].y \in { RNeg(amplitude), Zero }

\* a rectangular waveform of positive amplitude with a high and a low sample
C8_Witness ==
  /\ wave.kind = "RectangularSignal" /\ output.status = "ok"
  /\ RGt(wave.inner_signal.amplitude, Zero)
  /\ \E i, j \in 1..Len(output.samples) :
       /\ output.samples[i].y = wave.inner_signal.amplitude
       /\ output.samples[j].y = Zero

StrictlyIncreasing(points) ==
  \A i \in 1..(Len(points) - 1) : RLt(points[i], points[i + 1])

\* the indices of the grid instants nearest to the target
Nearest ==
  { i \in 1..Len(sampling_points) :
      \A j \in 1..Len(sampling_points) : RLe(PulseDistance(i), PulseDistance(j)) }

\* C9: on a non-empty strictly increasing grid the sample that receives amplitude is
\* the instant nearest to start_offset + time_offset, the earlier one of two equally
\* near instants; every other sample is 0.
C9_NearestEarliestOnTie ==
  ( /\ wave.kind = "UnitPulse" /\ output.status = "ok"
    /\ sampling_points # << >> /\ StrictlyIncreasing(sampling_points) ) =>
    LET chosen == CHOOSE i \in Nearest : \A j \in Nearest : i <= j
    IN  /\ output.samples[chosen] = CoordPair(sampling_points[chosen], wave.amplitude)
        /\ \A j \in 1..Len(output.samples) :
             j # chosen => output.samples[j] = CoordPair(sampling_points[j], Zero)

\* two instants of an increasing grid are equally near to the target
C9_Witness ==
  /\ wave.kind = "UnitPulse" /\ output.status = "ok" /\ wave.amplitude # Zero
  /\ StrictlyIncreasing(sampling_points)
  /\ Cardinality(Nearest) = 2

====
